---- MODULE Spec2Model ----
(***************************************************************************)
(* Model of the OFSP regeneration calculator (src/app.js): the simulation  *)
(* engine calculateSimulation / calcGeneration, the sensitivity sweep      *)
(* runSensitivityAnalysis, and the page around them (validateForm,         *)
(* getInputs, run, the sensitivity select and exportCSV), and the farmOS   *)
(* panel: the connect and sync buttons and FarmOSConnector.                *)
(*                                                                         *)
(* JavaScript numbers are modelled as extended rationals: a record         *)
(* [n, d] with d > 0 and gcd(n, d) = 1 is the finite value n/d, [1, 0] is  *)
(* +Infinity, [-1, 0] is -Infinity and [0, 0] is NaN.  The arithmetic      *)
(* follows IEEE-754 for the special values (x/0, 0/0, Inf*0, Inf-Inf,      *)
(* comparisons with NaN are false); rounding and the sign of zero are not  *)
(* modelled, and the parameter values are non-negative.                    *)
(***************************************************************************)
EXTENDS Integers, Sequences, FiniteSets, TLC

VARIABLES inputs, pc, results, sensitivityId, sensitivity, simCalls,
          form, limits, errors, exported,
          connector, farmos, connecting, syncs, sync

\* the farmOS side of the page: window._farmosConnector, the elements of the
\* farmOS panel, whether a connect() is awaited, the arguments of the
\* syncSimulation calls that are awaited, and the state of one syncSimulation
\* call inside the connector
farmosVars == <<connector, farmos, connecting, syncs, sync>>

\* the state of the page: the fields of the form, their min/max attributes,
\* the fields marked invalid, the results written to the last CSV download
\* and the farmOS side
pageVars == <<form, limits, errors, exported, farmosVars>>

vars == <<inputs, pc, results, sensitivityId, sensitivity, simCalls, pageVars>>

----------------------------------------------------------------------------
(* Bounds of the model *)

\* parameter values edited into a profile range over 0..MaxVal
MaxVal == 2

----------------------------------------------------------------------------
(* JavaScript number arithmetic *)

Abs(x) == IF x < 0 THEN -x ELSE x

Sign(x) == IF x < 0 THEN -1 ELSE IF x > 0 THEN 1 ELSE 0

RECURSIVE GCD(_, _)
GCD(a, b) == IF b = 0 THEN a ELSE GCD(b, a % b)

\* the number n/d in canonical form (d = 0 gives an infinity or NaN)
Num(n, d) ==
    IF d = 0 THEN [n |-> Sign(n), d |-> 0]
    ELSE LET g == GCD(Abs(n), Abs(d))
             s == IF d < 0 THEN -1 ELSE 1
         IN  [n |-> (s * n) \div g, d |-> (s * d) \div g]

Int2Num(i) == [n |-> i, d |-> 1]

NaN == [n |-> 0, d |-> 0]
Zero == Int2Num(0)
One == Int2Num(1)

IsNaN(a) == a.n = 0 /\ a.d = 0

\* Number.isFinite
IsFinite(a) == a.d # 0

\* a * b
Mul(a, b) ==
    IF a.d = 0 \/ b.d = 0
    THEN Num(a.n * b.n, a.d * b.d)
    ELSE LET g1 == GCD(Abs(a.n), b.d)
             g2 == GCD(Abs(b.n), a.d)
         IN  Num((a.n \div g1) * (b.n \div g2), (a.d \div g2) * (b.d \div g1))

\* a / b
Div(a, b) ==
    IF b.d = 0 \/ b.n = 0
    THEN Num(a.n * b.d, a.d * Abs(b.n))
    ELSE Mul(a, [n |-> Sign(b.n) * b.d, d |-> Abs(b.n)])

\* a + b
Add(a, b) ==
    IF a.d = 0 /\ b.d = 0
    THEN (IF a.n = b.n THEN a ELSE NaN)
    ELSE IF a.d = 0 \/ b.d = 0
    THEN Num(a.n * b.d + b.n * a.d, 0)
    ELSE LET g == GCD(a.d, b.d)
         IN  Num(a.n * (b.d \div g) + b.n * (a.d \div g), (a.d \div g) * b.d)

\* a - b
Sub(a, b) == Add(a, [n |-> -b.n, d |-> b.d])

\* a > b (false when either side is NaN)
Gt(a, b) ==
    /\ ~IsNaN(a)
    /\ ~IsNaN(b)
    /\ IF a.d = 0 /\ b.d = 0
       THEN a.n > b.n
       ELSE LET g == GCD(a.d, b.d)
            IN  a.n * (IF g = 0 THEN b.d ELSE b.d \div g)
                    > b.n * (IF g = 0 THEN a.d ELSE a.d \div g)

\* a <= b (false when either side is NaN)
Le(a, b) == ~IsNaN(a) /\ ~IsNaN(b) /\ ~Gt(a, b)

\* truthiness of a number: 0 and NaN are falsy
Truthy(a) == a.n # 0

\* a || b
OrElse(a, b) == IF Truthy(a) THEN a ELSE b

\* Math.min(a, b)
MathMin(a, b) ==
    IF IsNaN(a) \/ IsNaN(b) THEN NaN
    ELSE IF Gt(a, b) THEN b ELSE a

\* Math.floor(a)
MathFloor(a) == IF a.d = 0 THEN a ELSE Int2Num(a.n \div a.d)

RECURSIVE SumSeq(_)
\* arr.reduce((sum, x) => sum + x, 0)
SumSeq(s) ==
    IF s = <<>> THEN Zero
    ELSE Add(SumSeq(SubSeq(s, 1, Len(s) - 1)), s[Len(s)])

----------------------------------------------------------------------------
(* The simulation engine *)

\* slipCostOf charging the slips of every generation that passes through it
slipCostOf_Always(includeSlipCost, slipsPlanted, in) ==
    Mul(slipsPlanted, in.cost_slip_per_unit)

\* slipCostOf charging only the slips that establish
slipCostOf_Established(includeSlipCost, slipsPlanted, in) ==
    IF includeSlipCost
    THEN Mul(Mul(slipsPlanted, in.slip_survival_rate), in.cost_slip_per_unit)
    ELSE Zero

\* const slipCost = includeSlipCost ? slipsPlanted * inputs.cost_slip_per_unit : 0
slipCostOf(includeSlipCost, slipsPlanted, in) ==
    IF includeSlipCost THEN Mul(slipsPlanted, in.cost_slip_per_unit) ELSE Zero

\* tonsPerHectareModeOf scaled by the crop survival rate
tonsPerHectareModeOf_Surviving(hectares, in, yieldFraction) ==
    Mul(Mul(Mul(Mul(hectares, in.tons_per_hectare), in.tons_harvest_percent), yieldFraction),
        in.crop_survival_rate)

\* tonsPerHectareModeOf leaving the harvest efficiency out
tonsPerHectareModeOf_NoEfficiency(hectares, in, yieldFraction) ==
    Mul(Mul(hectares, in.tons_per_hectare), yieldFraction)

\* tonsHarvested = hectares * inputs.tons_per_hectare
\*                 * inputs.tons_harvest_percent * yieldFraction
tonsPerHectareModeOf(hectares, in, yieldFraction) ==
    Mul(Mul(Mul(hectares, in.tons_per_hectare), in.tons_harvest_percent), yieldFraction)

\* calcGeneration(name, hectares, slipsPlanted, inputs, lossFactor,
\*                costPerHectareNoSlips, maintenanceCostPerHectare,
\*                includeSlipCost, isSubGen, yieldFraction)
calcGeneration(name, hectares, slipsPlanted, in, lossFactor, costPerHectareNoSlips, maintenanceCostPerHectare, includeSlipCost, isSubGen, yieldFraction0) ==
    LET yieldFraction == OrElse(yieldFraction0, One)
        perHectare == in.yield_mode = "per_hectare"
        tonsPerHectareMode == tonsPerHectareModeOf(hectares, in, yieldFraction)
        potatoesPerPlantMode == Mul(Mul(slipsPlanted, in.potatoes_per_plant), lossFactor)
        potatoesHarvested ==
            IF perHectare
            THEN (IF Gt(in.grams_per_potato, Zero)
                  THEN Div(Mul(tonsPerHectareMode, in.grams_per_ton), in.grams_per_potato)
                  ELSE Zero)
            ELSE potatoesPerPlantMode
        tonsHarvested ==
            IF perHectare
            THEN tonsPerHectareMode
            ELSE Mul(Div(Mul(potatoesPerPlantMode, in.grams_per_potato), in.grams_per_ton),
                     in.tons_harvest_percent)
        caloriesPerTon ==
            IF Gt(in.grams_per_ton, Zero) /\ Gt(in.grams_per_potato, Zero)
            THEN Mul(Div(in.grams_per_ton, in.grams_per_potato), in.calories_per_potato_with_leaves)
            ELSE Zero
        caloriesNeededPerDay == Mul(in.people_to_feed, in.calorie_target_per_person)
        daysFed ==
            IF Gt(caloriesNeededPerDay, Zero)
            THEN Div(Mul(tonsHarvested, caloriesPerTon), caloriesNeededPerDay)
            ELSE Zero
        slipCost == slipCostOf(includeSlipCost, slipsPlanted, in)
        cost ==
            IF isSubGen
            THEN Mul(maintenanceCostPerHectare, hectares)
            ELSE Add(Mul(costPerHectareNoSlips, hectares), slipCost)
        vitaminAMcg ==
            IF Gt(in.vitamin_a_per_100g, Zero)
            THEN Mul(Div(Mul(tonsHarvested, in.grams_per_ton), Int2Num(100)), in.vitamin_a_per_100g)
            ELSE Zero
        vitaminAChildDays ==
            IF Gt(in.daily_vitamin_a_need, Zero)
            THEN Div(vitaminAMcg, in.daily_vitamin_a_need)
            ELSE Zero
    IN  [name |-> name,
         hectares |-> hectares,
         slips_planted |-> slipsPlanted,
         potatoes_harvested |-> potatoesHarvested,
         tons_harvested |-> tonsHarvested,
         days_fed |-> daysFed,
         vitamin_a_mcg |-> vitaminAMcg,
         vitamin_a_child_days |-> vitaminAChildDays,
         cost |-> cost]

\* const subGenYields = [0.40, 0.25, 0.15]
subGenYields == <<Num(40, 100), Num(25, 100), Num(15, 100)>>

\* vineCuttingSlipsOf without the test of the parent's tuber count
vineCuttingSlipsOf_Unguarded(gen, in) ==
    Mul(Mul(gen.slips_planted, in.crop_survival_rate), in.vine_cuttings_per_plant)

\* slips available to the vine-cutting sub-generations of a main generation
vineCuttingSlipsOf(gen, in) ==
    IF Gt(gen.potatoes_harvested, Zero)
    THEN Mul(Mul(gen.slips_planted, in.crop_survival_rate), in.vine_cuttings_per_plant)
    ELSE Zero

\* replantSlipsOf replanting every harvested tuber
replantSlipsOf_AllTubers(gen, in) ==
    Mul(gen.potatoes_harvested, in.slips_from_replant)

\* slips planted by the main generation that follows gen
replantSlipsOf(gen, in) ==
    Mul(Mul(gen.potatoes_harvested, in.replant_percent), in.slips_from_replant)

\* allGensOf with the sub-generations listed before their main generation
allGensOf_SubsFirst(gen1, gen1a, gen1b, gen1c, gen2, gen2a, gen2b, gen2c, gen3, gen3a, gen3b, gen3c) ==
    <<gen1a, gen1b, gen1c, gen1, gen2a, gen2b, gen2c, gen2, gen3a, gen3b, gen3c, gen3>>

\* the order in which calculateSimulation lists the generations
allGensOf(gen1, gen1a, gen1b, gen1c, gen2, gen2a, gen2b, gen2c, gen3, gen3a, gen3b, gen3c) ==
    <<gen1, gen1a, gen1b, gen1c, gen2, gen2a, gen2b, gen2c, gen3, gen3a, gen3b, gen3c>>

\* sum of one field over the generations
reduceField(allGens, f) == SumSeq([i \in 1..Len(allGens) |-> allGens[i][f]])

\* costPerPersonFullPeriodOf dividing without the population guard
costPerPersonFullPeriodOf_Unguarded(totalCost, in) == Div(totalCost, in.people_to_feed)

\* cost per person over the full period
costPerPersonFullPeriodOf(totalCost, in) ==
    IF Gt(in.people_to_feed, Zero) THEN Div(totalCost, in.people_to_feed) ELSE Zero

\* cost per person per day fed
costPerPersonPerDayOf(totalCost, totalDaysFed, in) ==
    IF Gt(totalDaysFed, Zero) /\ Gt(in.people_to_feed, Zero)
    THEN Div(totalCost, Mul(totalDaysFed, in.people_to_feed))
    ELSE Zero

\* cyclesPerYearOf with 2 as the fallback
cyclesPerYearOf_Fallback2(in) == OrElse(in.cycles_per_year, Int2Num(2))

\* const cyclesPerYear = inputs.cycles_per_year || 1
cyclesPerYearOf(in) == OrElse(in.cycles_per_year, Int2Num(1))

\* const daysPerCycle = inputs.days_to_harvest || 120
daysPerCycleOf(in) == OrElse(in.days_to_harvest, Int2Num(120))

\* totalChainDaysOf taking one cycle for the whole chain
totalChainDaysOf_OneCycle(in) == daysPerCycleOf(in)

\* const totalChainDays = 3 * daysPerCycle
totalChainDaysOf(in) == Mul(Int2Num(3), daysPerCycleOf(in))

\* annualScaleFactorOf as the naive multiplication by cycles per year
annualScaleFactorOf_Naive(in) == cyclesPerYearOf(in)

\* const annualScaleFactor = Math.min(365 / totalChainDays, cyclesPerYear)
annualScaleFactorOf(in) ==
    MathMin(Div(Int2Num(365), totalChainDaysOf(in)), cyclesPerYearOf(in))

\* costPerHectareNoSlipsOf with the transport left out of the supplies
costPerHectareNoSlipsOf_NoTransport(in) ==
    Mul(Add(Add(Add(Add(Add(Add(Add(Add(Add(Add(in.cost_land_clearing_per_acre,
                                                in.cost_forking_per_acre),
                                            in.cost_planting_per_acre),
                                        in.cost_weeding_per_acre),
                                    in.cost_fertilizer_app_per_acre),
                                in.cost_harvesting_per_acre),
                            in.cost_herbicide_per_acre),
                        in.cost_fertilizer_per_acre),
                    in.cost_tools_per_acre),
                in.cost_other_per_acre),
            in.cost_irrigation_per_acre),
        in.acres_per_hectare)

\* full-preparation cost per hectare, slips excluded
costPerHectareNoSlipsOf(in) ==
    LET laborPerAcre ==
            Add(Add(Add(Add(Add(in.cost_land_clearing_per_acre, in.cost_forking_per_acre),
                            in.cost_planting_per_acre), in.cost_weeding_per_acre),
                    in.cost_fertilizer_app_per_acre), in.cost_harvesting_per_acre)
        suppliesPerAcre ==
            Add(Add(Add(Add(in.cost_herbicide_per_acre, in.cost_fertilizer_per_acre),
                        in.cost_tools_per_acre), in.cost_other_per_acre),
                in.cost_transport_per_acre)
    IN  Mul(Add(Add(laborPerAcre, suppliesPerAcre), in.cost_irrigation_per_acre),
            in.acres_per_hectare)

\* maintenanceCostPerHectareOf charging the herbicide too
maintenanceCostPerHectareOf_WithHerbicide(in) ==
    Mul(Add(Add(Add(Add(in.cost_weeding_per_acre, in.cost_fertilizer_app_per_acre),
                    in.cost_harvesting_per_acre), in.cost_transport_per_acre),
            in.cost_herbicide_per_acre),
        in.acres_per_hectare)

\* maintenance-only cost per hectare of the sub-generations
maintenanceCostPerHectareOf(in) ==
    LET maintenancePerAcre ==
            Add(Add(Add(in.cost_weeding_per_acre, in.cost_fertilizer_app_per_acre),
                    in.cost_harvesting_per_acre), in.cost_transport_per_acre)
    IN  Mul(maintenancePerAcre, in.acres_per_hectare)

\* lossFactorOf leaving the storage survival out
lossFactorOf_NoStorage(in) == Mul(in.slip_survival_rate, in.crop_survival_rate)

\* const lossFactor = slip_survival_rate * crop_survival_rate * storage_survival_rate
lossFactorOf(in) ==
    Mul(Mul(in.slip_survival_rate, in.crop_survival_rate), in.storage_survival_rate)

\* the values calculateSimulation computes once and hands to every calcGeneration call
sharedOf(in) ==
    [lossFactor |-> lossFactorOf(in),
     costPerHectareNoSlips |-> costPerHectareNoSlipsOf(in),
     maintenanceCostPerHectare |-> maintenanceCostPerHectareOf(in)]

\* a vine-cutting sub-generation of the main generation parent
subGeneration(name, parent, slips, in, sh, i) ==
    calcGeneration(name, parent.hectares, slips, in, sh.lossFactor, sh.costPerHectareNoSlips,
                   sh.maintenanceCostPerHectare, FALSE, TRUE, subGenYields[i])

\* a main generation; only Generation 1 pays for its slips
mainGeneration(name, hectares, slips, in, sh, includeSlipCost) ==
    calcGeneration(name, hectares, slips, in, sh.lossFactor, sh.costPerHectareNoSlips,
                   sh.maintenanceCostPerHectare, includeSlipCost, FALSE, One)

\* the 12 generations, given the three main generations and the slips of
\* their sub-generations
generationsOf(in, sh, gen1, gen2, gen3, vineCuttingSlips, vineCuttingSlips2, vineCuttingSlips3) ==
    allGensOf(gen1,
              subGeneration("Gen 1a (vine)", gen1, vineCuttingSlips, in, sh, 1),
              subGeneration("Gen 1b (vine)", gen1, vineCuttingSlips, in, sh, 2),
              subGeneration("Gen 1c (vine)", gen1, vineCuttingSlips, in, sh, 3),
              gen2,
              subGeneration("Gen 2a (vine)", gen2, vineCuttingSlips2, in, sh, 1),
              subGeneration("Gen 2b (vine)", gen2, vineCuttingSlips2, in, sh, 2),
              subGeneration("Gen 2c (vine)", gen2, vineCuttingSlips2, in, sh, 3),
              gen3,
              subGeneration("Gen 3a (vine)", gen3, vineCuttingSlips3, in, sh, 1),
              subGeneration("Gen 3b (vine)", gen3, vineCuttingSlips3, in, sh, 2),
              subGeneration("Gen 3c (vine)", gen3, vineCuttingSlips3, in, sh, 3))

\* the sub-generations, given the three main generations
generationsFrom3(in, sh, gen1, gen2, gen3) ==
    generationsOf(in, sh, gen1, gen2, gen3, vineCuttingSlipsOf(gen1, in),
                  vineCuttingSlipsOf(gen2, in), vineCuttingSlipsOf(gen3, in))

\* Generation 3 and the sub-generations, given Generations 1 and 2
generationsFrom2(in, sh, gen1, gen2) ==
    generationsFrom3(in, sh, gen1, gen2,
                     mainGeneration("Generation 3", in.hectares_gen_3,
                                    replantSlipsOf(gen2, in), in, sh, FALSE))

\* Generations 2 and 3 and the sub-generations, given Generation 1
generationsFrom1(in, sh, gen1) ==
    generationsFrom2(in, sh, gen1,
                     mainGeneration("Generation 2", in.hectares_gen_2,
                                    replantSlipsOf(gen1, in), in, sh, FALSE))

\* the generation chain of calculateSimulation, given the shared values
generationsWith(in, sh) ==
    generationsFrom1(in, sh, mainGeneration("Generation 1", in.initial_hectares,
                                            in.initial_slips, in, sh, TRUE))

\* the generation chain of calculateSimulation
allGenerations(in) == generationsWith(in, sharedOf(in))

\* children whose annual Vitamin-A need is met
childrenAnnualVaMetOf(totalVitaminAChildDays) ==
    IF Gt(totalVitaminAChildDays, Zero)
    THEN MathFloor(Div(totalVitaminAChildDays, Int2Num(365)))
    ELSE Zero

\* the result object, given the generations, their totals and the scale factor
resultOf(in, allGens, totalDaysFed, totalCost, totalTons, totalVitaminAChildDays, annualScaleFactor) ==
    [all_gens |-> allGens,
     total_days_fed |-> totalDaysFed,
     total_cost |-> totalCost,
     total_tons |-> totalTons,
     cost_per_person_full_period |-> costPerPersonFullPeriodOf(totalCost, in),
     cost_per_person_per_day |-> costPerPersonPerDayOf(totalCost, totalDaysFed, in),
     total_vitamin_a_child_days |-> totalVitaminAChildDays,
     children_annual_va_met |-> childrenAnnualVaMetOf(totalVitaminAChildDays),
     cycles_per_year |-> cyclesPerYearOf(in),
     annual_scale_factor |-> annualScaleFactor,
     annual_tons |-> Mul(totalTons, annualScaleFactor),
     annual_days_fed |-> Mul(totalDaysFed, annualScaleFactor),
     annual_cost |-> Mul(totalCost, annualScaleFactor)]

\* the totals and the annual projection over the generations
aggregate(in, allGens) ==
    resultOf(in, allGens, reduceField(allGens, "days_fed"), reduceField(allGens, "cost"),
             reduceField(allGens, "tons_harvested"),
             reduceField(allGens, "vitamin_a_child_days"), annualScaleFactorOf(in))

calculateSimulation(in) == aggregate(in, allGenerations(in))

----------------------------------------------------------------------------
(* The sensitivity analysis *)

\* getSensitivityInputOptions(): the ids offered for the analysis
getSensitivityInputOptions ==
    <<"initial_slips", "initial_hectares", "tons_per_hectare", "tons_harvest_percent",
      "potatoes_per_plant", "vine_cuttings_per_plant", "replant_percent",
      "slips_from_replant", "slip_survival_rate", "crop_survival_rate",
      "storage_survival_rate", "people_to_feed", "calorie_target_per_person",
      "cycles_per_year", "cost_irrigation_per_acre", "cost_slip_per_unit",
      "vitamin_a_per_100g", "daily_vitamin_a_need">>

\* const steps = [{label, factor}, ...]
steps ==
    <<[label |-> "-25%", factor |-> Num(75, 100)],
      [label |-> "-10%", factor |-> Num(90, 100)],
      [label |-> "Base", factor |-> Num(100, 100)],
      [label |-> "+10%", factor |-> Num(110, 100)],
      [label |-> "+25%", factor |-> Num(125, 100)]>>

\* the guard of runSensitivityAnalysis: !inputId || baseInputs[inputId] === undefined
sensitivitySkipped(inputId, baseInputs) ==
    inputId = "" \/ inputId \notin DOMAIN baseInputs

\* stepObjects writing through an alias of the caller's object
\* (const modifiedInputs = baseInputs)
stepObjects_Aliased(baseInputs, inputId, value) ==
    [base |-> [baseInputs EXCEPT ![inputId] = value],
     modified |-> [baseInputs EXCEPT ![inputId] = value]]

\* the two objects of one step: const modifiedInputs = { ...baseInputs } is a
\* new object with the caller's keys, modifiedInputs[inputId] = value writes
\* to it, and the caller's object baseInputs keeps its values
stepObjects(baseInputs, inputId, value) ==
    [base |-> baseInputs,
     modified |-> [baseInputs EXCEPT ![inputId] = value]]

\* const modifiedInputs = { ...baseInputs }; modifiedInputs[inputId] = baseValue * step.factor
modifiedInputsOf(inputId, baseInputs, step) ==
    stepObjects(baseInputs, inputId, Mul(baseInputs[inputId], step.factor)).modified

\* the caller's object after the steps from the i-th on, baseValue being the
\* value read from it before the first step
RECURSIVE baseInputsAfterSteps(_, _, _, _)
baseInputsAfterSteps(baseInputs, inputId, baseValue, i) ==
    IF i > Len(steps)
    THEN baseInputs
    ELSE baseInputsAfterSteps(
             stepObjects(baseInputs, inputId, Mul(baseValue, steps[i].factor)).base,
             inputId, baseValue, i + 1)

\* the caller's object after runSensitivityAnalysis(inputId, baseInputs)
baseInputsAfter(inputId, baseInputs) ==
    IF sensitivitySkipped(inputId, baseInputs)
    THEN baseInputs
    ELSE baseInputsAfterSteps(baseInputs, inputId, baseInputs[inputId], 1)

\* rowOf taking the deltas from the run to the baseline
rowOf_DeltaReversed(step, value, res, baseResults) ==
    [label |-> step.label,
     factor |-> step.factor,
     value |-> value,
     days_fed |-> res.total_days_fed,
     cost |-> res.total_cost,
     daysDelta |-> Sub(baseResults.total_days_fed, res.total_days_fed),
     costDelta |-> Sub(baseResults.total_cost, res.total_cost),
     isBaseRow |-> (step.factor = One)]

\* one rendered row: the step, the scaled input value, the totals of the run
\* on the modified inputs and their difference from the baseline totals
rowOf(step, value, res, baseResults) ==
    [label |-> step.label,
     factor |-> step.factor,
     value |-> value,
     days_fed |-> res.total_days_fed,
     cost |-> res.total_cost,
     daysDelta |-> Sub(res.total_days_fed, baseResults.total_days_fed),
     costDelta |-> Sub(res.total_cost, baseResults.total_cost),
     isBaseRow |-> (step.factor = One)]

\* the body of steps.map(step => ...), given the modified inputs
rowOnModified(inputId, modifiedInputs, baseResults, step) ==
    rowOf(step, modifiedInputs[inputId], calculateSimulation(modifiedInputs), baseResults)

\* one row of the table: the body of steps.map(step => ...)
sensitivityRow(inputId, baseInputs, baseResults, step) ==
    rowOnModified(inputId, modifiedInputsOf(inputId, baseInputs, step), baseResults, step)

\* steps.map(step => ...), given the baseline results
sensitivityRows(inputId, baseInputs, baseResults) ==
    [i \in 1..Len(steps) |-> sensitivityRow(inputId, baseInputs, baseResults, steps[i])]

\* runSensitivityAnalysis computing the baseline before it tests the id
runSensitivityAnalysis_BaselineFirst(inputId, baseInputs) ==
    IF sensitivitySkipped(inputId, baseInputs)
    THEN [rows |-> <<>>, engineCalls |-> 1]
    ELSE [rows |-> sensitivityRows(inputId, baseInputs, calculateSimulation(baseInputs)),
          engineCalls |-> 1 + Len(steps)]

\* runSensitivityAnalysis(inputId, baseInputs): the rows rendered into the
\* container (none when the guard returns early) and the number of
\* calculateSimulation calls made
runSensitivityAnalysis(inputId, baseInputs) ==
    IF sensitivitySkipped(inputId, baseInputs)
    THEN [rows |-> <<>>, engineCalls |-> 0]
    ELSE [rows |-> sensitivityRows(inputId, baseInputs, calculateSimulation(baseInputs)),
          engineCalls |-> 1 + Len(steps)]

----------------------------------------------------------------------------
(* Parameter sets *)

\* the ids of the numeric form inputs the engine reads
NumericKeys ==
    {"initial_slips", "initial_hectares", "hectares_gen_2", "hectares_gen_3",
     "tons_per_hectare", "tons_harvest_percent", "potatoes_per_plant",
     "vine_cuttings_per_plant", "replant_percent", "slips_from_replant",
     "slip_survival_rate", "crop_survival_rate", "storage_survival_rate",
     "grams_per_potato", "grams_per_ton", "calories_per_potato_with_leaves",
     "people_to_feed", "calorie_target_per_person", "vitamin_a_per_100g",
     "daily_vitamin_a_need", "cost_land_clearing_per_acre", "cost_forking_per_acre",
     "cost_planting_per_acre", "cost_weeding_per_acre", "cost_fertilizer_app_per_acre",
     "cost_harvesting_per_acre", "cost_herbicide_per_acre", "cost_fertilizer_per_acre",
     "cost_tools_per_acre", "cost_other_per_acre", "cost_transport_per_acre",
     "cost_irrigation_per_acre", "acres_per_hectare", "cost_slip_per_unit",
     "cycles_per_year", "days_to_harvest"}

YieldModes == {"per_hectare", "per_plant"}

\* the object getInputs builds: every numeric input by id, plus yield_mode
MakeInputs(num, mode) ==
    [k \in NumericKeys \cup {"yield_mode"} |-> IF k = "yield_mode" THEN mode ELSE num[k]]

\* all inputs 0 (the degenerate parameter set)
ZeroProfile == [k \in NumericKeys |-> Zero]

\* all inputs 1
UnitProfile == [k \in NumericKeys |-> One]

\* a scaled-down parameter set shaped like the defaults: rates below 1,
\* growing land areas, distinct cost inputs
TypicalProfile ==
    [k \in NumericKeys |->
        CASE k = "initial_slips" -> Int2Num(4)
          [] k = "initial_hectares" -> Int2Num(1)
          [] k = "hectares_gen_2" -> Int2Num(2)
          [] k = "hectares_gen_3" -> Int2Num(3)
          [] k = "tons_per_hectare" -> Int2Num(2)
          [] k = "tons_harvest_percent" -> Num(1, 2)
          [] k = "potatoes_per_plant" -> Int2Num(4)
          [] k = "vine_cuttings_per_plant" -> Int2Num(2)
          [] k = "replant_percent" -> Num(1, 2)
          [] k = "slips_from_replant" -> Int2Num(4)
          [] k = "slip_survival_rate" -> Int2Num(1)
          [] k = "crop_survival_rate" -> Num(1, 2)
          [] k = "storage_survival_rate" -> Int2Num(1)
          [] k = "grams_per_potato" -> Int2Num(2)
          [] k = "grams_per_ton" -> Int2Num(100)
          [] k = "calories_per_potato_with_leaves" -> Int2Num(3)
          [] k = "people_to_feed" -> Int2Num(5)
          [] k = "calorie_target_per_person" -> Int2Num(2)
          [] k = "vitamin_a_per_100g" -> Int2Num(3)
          [] k = "daily_vitamin_a_need" -> Int2Num(2)
          [] k = "cost_land_clearing_per_acre" -> Int2Num(5)
          [] k = "cost_forking_per_acre" -> Int2Num(4)
          [] k = "cost_planting_per_acre" -> Int2Num(3)
          [] k = "cost_weeding_per_acre" -> Int2Num(2)
          [] k = "cost_fertilizer_app_per_acre" -> Int2Num(1)
          [] k = "cost_harvesting_per_acre" -> Int2Num(3)
          [] k = "cost_herbicide_per_acre" -> Int2Num(2)
          [] k = "cost_fertilizer_per_acre" -> Int2Num(4)
          [] k = "cost_tools_per_acre" -> Int2Num(1)
          [] k = "cost_other_per_acre" -> Int2Num(1)
          [] k = "cost_transport_per_acre" -> Int2Num(2)
          [] k = "cost_irrigation_per_acre" -> Int2Num(3)
          [] k = "acres_per_hectare" -> Num(5, 2)
          [] k = "cost_slip_per_unit" -> Num(1, 4)
          [] k = "cycles_per_year" -> Int2Num(2)
          [] k = "days_to_harvest" -> Int2Num(120)]

Profiles == {ZeroProfile, UnitProfile, TypicalProfile}

\* the values one input of a profile is replaced by
Vals == {Int2Num(i) : i \in 0..MaxVal}

\* the parameter sets of the model: a profile with at most one input replaced,
\* in either yield mode
InputSpace ==
    {MakeInputs([p EXCEPT ![k] = v], m) :
        p \in Profiles, k \in NumericKeys, v \in Vals, m \in YieldModes}

\* the inputs whose replacement by 0..MaxVal the analysed parameter sets cover:
\* a divisor of each mode, a rate and a cost
SensitivityEditKeys ==
    {"grams_per_ton", "people_to_feed", "slip_survival_rate", "cost_slip_per_unit"}

\* the parameter sets the sensitivity analysis is run on
SensitivityInputSpace ==
    {MakeInputs([p EXCEPT ![k] = v], m) :
        p \in Profiles, k \in SensitivityEditKeys, v \in Vals, m \in YieldModes}

\* the ids runSensitivityAnalysis is called with: the offered options, the
\* empty id and an id that is no input
AnalysisIds ==
    {getSensitivityInputOptions[i] : i \in 1..Len(getSensitivityInputOptions)}
        \cup {"", "no_such_input"}

----------------------------------------------------------------------------
(* The engine applied to a parameter set *)

NoResults == [all_gens |-> <<>>]

\* no page: the engine is called on a parameter object directly
\* a page without the farmOS panel: getElementById gives null for its
\* buttons, so no farmOS listener is registered
NoPanel == [present |-> FALSE]

\* no syncSimulation call is being followed
NoSync == [pc |-> "none"]

\* no connector is in use
NoFarmOS ==
    /\ connector = <<>>
    /\ farmos = NoPanel
    /\ connecting = FALSE
    /\ syncs = <<>>
    /\ sync = NoSync

NoPage ==
    /\ form = <<>>
    /\ limits = <<>>
    /\ errors = {}
    /\ exported = NoResults
    /\ NoFarmOS

Init ==
    /\ inputs \in InputSpace
    /\ pc = "ready"
    /\ results = NoResults
    /\ sensitivityId = ""
    /\ sensitivity = <<>>
    /\ simCalls = 0
    /\ NoPage

\* a call calculateSimulation(inputs): the engine reads the parameter object
\* and assigns to none of its keys
SimulateCall ==
    /\ results' = calculateSimulation(inputs)
    /\ simCalls' = 1
    /\ pc' = "simulated"
    /\ UNCHANGED <<inputs, sensitivityId, sensitivity, pageVars>>

\* const results = calculateSimulation(inputs)
Simulate ==
    /\ pc = "ready"
    /\ SimulateCall

Next == Simulate

Spec == Init /\ [][Next]_vars

----------------------------------------------------------------------------
(* The sensitivity analysis applied to a parameter set and an id *)

InitSensitivity ==
    /\ inputs \in SensitivityInputSpace
    /\ pc = "ready"
    /\ results = NoResults
    /\ sensitivityId = ""
    /\ sensitivity = <<>>
    /\ simCalls = 0
    /\ NoPage

\* the container shows the rows of the analysis
Rendered(analysis) ==
    /\ sensitivity' = analysis.rows
    /\ simCalls' = analysis.engineCalls

\* a call runSensitivityAnalysis(inputId, inputs)
AnalyzeCall(inputId) ==
    /\ sensitivityId' = inputId
    /\ \E analysis \in {runSensitivityAnalysis(inputId, inputs)} : Rendered(analysis)
    /\ inputs' = baseInputsAfter(inputId, inputs)
    /\ pc' = "analyzed"
    /\ UNCHANGED <<results, pageVars>>

\* runSensitivityAnalysis(inputId, inputs), as displayResults calls it on the
\* inputs just simulated
Analyze(inputId) ==
    /\ pc = "simulated"
    /\ AnalyzeCall(inputId)

NextSensitivity ==
    \/ Simulate
    \/ \E inputId \in AnalysisIds : Analyze(inputId)

SpecSensitivity == InitSensitivity /\ [][NextSensitivity]_vars

----------------------------------------------------------------------------
(* Sequences of calls of the engine and the analysis on one parameter object *)

\* the parameter objects the calls are made on: each profile in either mode
CallInputSpace == {MakeInputs(p, m) : p \in Profiles, m \in YieldModes}

\* the ids the analysis is called with: offered inputs of the harvest, the
\* population and the costs, the empty id and an id that is no input
CallIds ==
    {"initial_slips", "tons_per_hectare", "crop_survival_rate", "people_to_feed",
     "cost_slip_per_unit", "vitamin_a_per_100g", "", "no_such_input"}

InitCalls ==
    /\ inputs \in CallInputSpace
    /\ pc = "ready"
    /\ results = NoResults
    /\ sensitivityId = ""
    /\ sensitivity = <<>>
    /\ simCalls = 0
    /\ NoPage

NextCalls ==
    \/ SimulateCall
    \/ \E inputId \in CallIds : AnalyzeCall(inputId)

SpecCalls == InitCalls /\ [][NextCalls]_vars

----------------------------------------------------------------------------
(* The page: the form and its validation, run(), the sensitivity select of  *)
(* the displayed results and the CSV export                                 *)

\* a number input of the form: raw is its trimmed text, "" when it is empty,
\* and value the number parseFloat reads from a text that is not empty
Field(v) == [raw |-> "number", value |-> v]

Blank == [raw |-> "", value |-> NaN]

\* parseFloat(input.value)
parseFloat(field) == IF field.raw = "" THEN NaN ELSE field.value

\* the min and max attributes of a number input
Limit(hasMin, min, hasMax, max) ==
    [hasMin |-> hasMin, min |-> min, hasMax |-> hasMax, max |-> max]

\* the inputs that hold a rate or a fraction
RateKeys ==
    {"tons_harvest_percent", "replant_percent", "slip_survival_rate",
     "crop_survival_rate", "storage_survival_rate"}

\* the attributes the inputs may carry: none at all, or min 0 on every input
\* and max 1 on the rates
LimitChoices ==
    {[k \in NumericKeys |-> Limit(FALSE, NaN, FALSE, NaN)],
     [k \in NumericKeys |-> Limit(TRUE, Zero, k \in RateKeys, One)]}

\* the test validateForm makes on one number input: TRUE when it marks it
\* invalid (empty, not a finite number, below min, above max)
fieldInvalid(field, limit) ==
    \/ field.raw = ""
    \/ ~IsFinite(parseFloat(field))
    \/ (limit.hasMin /\ Gt(limit.min, parseFloat(field)))
    \/ (limit.hasMax /\ Gt(parseFloat(field), limit.max))

\* the inputs validateForm marks invalid
invalidInputs(f, lim) == {k \in NumericKeys : fieldInvalid(f.fields[k], lim[k])}

\* validateForm(): true if no input is invalid
validateForm(f, lim) == invalidInputs(f, lim) = {}

\* inputs[element.id] = Number.isFinite(val) ? val : 0
valueOrZero(field) == IF IsFinite(parseFloat(field)) THEN parseFloat(field) ELSE Zero

\* getInputs(): every number input by id and the checked yield mode
getInputs(f) ==
    MakeInputs([k \in NumericKeys |-> valueOrZero(f.fields[k])],
               IF f.yield_mode = "" THEN "per_hectare" ELSE f.yield_mode)

\* the form filled in with the values of a profile
FormOf(p, mode) == [fields |-> [k \in NumericKeys |-> Field(p[k])], yield_mode |-> mode]

\* the number input the user edits: a rate
PageEditKeys == {"slip_survival_rate"}

\* what the user leaves in an edited input: nothing, or a number of 0..MaxVal
PageFields == {Blank} \cup {Field(v) : v \in Vals}

\* the options the user picks in the sensitivity select
PageSensitivityIds == {"initial_slips", "people_to_feed"}

\* the page before run() at the end of the DOMContentLoaded handler: let
\* lastResults = null, lastInputs = null, and nothing is displayed
Loading ==
    /\ errors = {}
    /\ exported = NoResults
    /\ inputs = <<>>
    /\ pc = "loading"
    /\ results = NoResults
    /\ sensitivityId = ""
    /\ sensitivity = <<>>
    /\ simCalls = 0

\* the calculator page without the farmOS panel: the form holds the typical
\* values
InitPage ==
    /\ form \in {FormOf(TypicalProfile, m) : m \in YieldModes}
    /\ limits \in LimitChoices
    /\ Loading
    /\ NoFarmOS

\* the handlers run once the page is loaded
Loaded == pc \in {"displayed", "rejected", "analyzed", "exported"}

\* this._accessToken = null in the constructor of FarmOSConnector
Null == "null"

\* get isConnected() { return !!this._accessToken }
isConnected(c) == c # <<>> /\ c._accessToken # Null

\* displayResults(results, inputs), lastResults = results, lastInputs = inputs:
\* the results of the form are shown, the sensitivity select is rebuilt on its
\* first option and the analysis of that option is rendered; the sync button
\* is enabled if there is one and the connector is connected
Displayed ==
    /\ farmos' = IF farmos.present /\ isConnected(connector)
                 THEN [farmos EXCEPT !.btnSyncDisabled = FALSE]
                 ELSE farmos
    /\ inputs' = getInputs(form')
    /\ results' = calculateSimulation(inputs')
    /\ sensitivityId' = getSensitivityInputOptions[1]
    /\ \E analysis \in {runSensitivityAnalysis(sensitivityId', inputs')} :
           /\ sensitivity' = analysis.rows
           /\ simCalls' = 1 + analysis.engineCalls
    /\ pc' = "displayed"

\* Rejected forgetting the last results and inputs
Rejected_ClearsLast ==
    /\ inputs' = <<>>
    /\ results' = NoResults
    /\ simCalls' = 0
    /\ pc' = "rejected"
    /\ UNCHANGED <<sensitivityId, sensitivity, farmos>>

\* if (!validateForm()) return: nothing but the error marks changes
Rejected ==
    /\ simCalls' = 0
    /\ pc' = "rejected"
    /\ UNCHANGED <<inputs, results, sensitivityId, sensitivity, farmos>>

\* run() on the form f
Run(f) ==
    /\ form' = f
    /\ errors' = invalidInputs(form', limits)
    /\ IF validateForm(form', limits) THEN Displayed ELSE Rejected
    /\ exported' = NoResults
    /\ UNCHANGED <<limits, connector, connecting, syncs, sync>>

\* the form as the events that call run() leave it: the page is loaded
\* (run() at the end of the DOMContentLoaded handler); or the user edits a
\* number input (input event), checks a yield-mode radio (input and change
\* events), or submits the form as it is (submit event)
FormsToRun ==
    IF pc = "loading"
    THEN {form}
    ELSE {form}
         \cup {[form EXCEPT !.fields[k] = field] : k \in PageEditKeys, field \in PageFields}
         \cup {[form EXCEPT !.yield_mode = mode] : mode \in YieldModes}

\* the load of the page, or an input, change or submit event of the form
FormEvent == \E f \in FormsToRun : Run(f)

\* the change handler of the sensitivity select, which exists once results
\* are displayed: runSensitivityAnalysis(sensitivitySelect.value, inputs) on
\* the inputs displayResults was called with
SensitivityChange(inputId) ==
    /\ Loaded
    /\ results # NoResults
    /\ sensitivityId' = inputId
    /\ \E analysis \in {runSensitivityAnalysis(inputId, inputs)} : Rendered(analysis)
    /\ inputs' = baseInputsAfter(inputId, inputs)
    /\ pc' = "analyzed"
    /\ exported' = NoResults
    /\ UNCHANGED <<results, form, limits, errors, farmosVars>>

\* exportCSV(), the click handler of the export button of the displayed
\* results: const inputs = getInputs(); const results = calculateSimulation(inputs)
exportCSV ==
    /\ Loaded
    /\ results # NoResults
    /\ \E in \in {getInputs(form)} : exported' = calculateSimulation(in)
    /\ simCalls' = 1
    /\ pc' = "exported"
    /\ UNCHANGED <<inputs, results, sensitivityId, sensitivity, form, limits, errors,
                   farmosVars>>

NextPage ==
    \/ FormEvent
    \/ \E inputId \in PageSensitivityIds : SensitivityChange(inputId)
    \/ exportCSV

SpecPage == InitPage /\ [][NextPage]_vars

----------------------------------------------------------------------------
(* The farmOS panel of the page: the connect and sync buttons *)

\* syncSimulation calls awaited at the same time are followed up to MaxSyncs
MaxSyncs == 2

\* new FarmOSConnector()
FarmOSConnector == [_accessToken |-> Null]

\* the elements of the farmOS panel the handlers read: the class of the
\* status dot and the disabled flags of the two buttons (the texts, the
\* progress bar and the summary are written and never read).  The markup has
\* the dot without a state class and the sync button disabled.
Panel ==
    [present |-> TRUE,
     statusDot |-> "farmos-dot",
     btnConnectDisabled |-> FALSE,
     btnSyncDisabled |-> TRUE]

\* the page with the farmOS panel before run() at the end of the
\* DOMContentLoaded handler: window._farmosConnector = new FarmOSConnector()
InitFarmOS ==
    /\ form \in {FormOf(TypicalProfile, m) : m \in YieldModes}
    /\ limits \in LimitChoices
    /\ Loading
    /\ connector = FarmOSConnector
    /\ farmos = Panel
    /\ connecting = FALSE
    /\ syncs = <<>>
    /\ sync = NoSync

\* the form as the events that call run() leave it on the page with the
\* panel: the page is loaded; or the user submits the form as it is, or
\* leaves the edited input empty or holding 0 (input event)
PanelFormsToRun ==
    IF pc = "loading"
    THEN {form}
    ELSE {form}
         \cup {[form EXCEPT !.fields[k] = field] :
                   k \in PageEditKeys, field \in {Blank, Field(Zero)}}

\* the load of the page with the panel, or an input or submit event of its form
PanelFormEvent == \E f \in PanelFormsToRun : Run(f)

\* the click handler of the connect button, up to its await: with a field of
\* the connection left empty it only writes the status text; otherwise it
\* disables the button and calls connector.connect(url, user, pass)
ConnectClick(filled) ==
    /\ Loaded
    /\ farmos.present
    /\ ~farmos.btnConnectDisabled
    /\ IF filled
       THEN /\ farmos' = [farmos EXCEPT !.btnConnectDisabled = TRUE]
            /\ connecting' = TRUE
       ELSE UNCHANGED <<farmos, connecting>>
    /\ UNCHANGED <<inputs, pc, results, sensitivityId, sensitivity, simCalls,
                   form, limits, errors, exported, connector, syncs, sync>>

\* connect(url, username, password) once the token request is answered: with
\* res.ok it stores data.access_token, otherwise it throws and leaves the
\* connector as it was
connect(c, ok) == IF ok THEN [c EXCEPT !._accessToken = "token"] ELSE c

\* the rest of the click handler of the connect button: the try block after
\* the await, or the catch block, and the finally block
ConnectSettled(ok) ==
    /\ connecting
    /\ connecting' = FALSE
    /\ connector' = connect(connector, ok)
    /\ farmos' =
           IF ok
           THEN [farmos EXCEPT !.statusDot = "farmos-dot connected",
                               !.btnSyncDisabled = IF results # NoResults THEN FALSE ELSE @,
                               !.btnConnectDisabled = FALSE]
           ELSE [farmos EXCEPT !.statusDot = "farmos-dot disconnected",
                               !.btnSyncDisabled = TRUE,
                               !.btnConnectDisabled = FALSE]
    /\ UNCHANGED <<inputs, pc, results, sensitivityId, sensitivity, simCalls,
                   form, limits, errors, exported, syncs, sync>>

\* the click handler of the sync button, up to its await: it returns at once
\* if the connector is not connected or there are no results; otherwise it
\* disables the button and calls
\* connector.syncSimulation(lastResults, lastInputs, ...).  A disabled button
\* dispatches no click.
SyncClick ==
    /\ Loaded
    /\ farmos.present
    /\ ~farmos.btnSyncDisabled
    /\ Len(syncs) < MaxSyncs
    /\ IF ~isConnected(connector) \/ results = NoResults
       THEN UNCHANGED <<farmos, syncs>>
       ELSE /\ farmos' = [farmos EXCEPT !.btnSyncDisabled = TRUE]
            /\ syncs' = Append(syncs, [results |-> results, inputs |-> inputs])
    /\ UNCHANGED <<inputs, pc, results, sensitivityId, sensitivity, simCalls,
                   form, limits, errors, exported, connector, connecting, sync>>

\* the sequence q without its k-th element
Without(q, k) == [j \in 1..(Len(q) - 1) |-> IF j < k THEN q[j] ELSE q[j + 1]]

\* the rest of the click handler of the sync button for the k-th awaited
\* call: syncSimulation resolved or threw, and the finally block enables the
\* sync button
SyncSettled(k, ok) ==
    /\ k \in 1..Len(syncs)
    /\ syncs' = Without(syncs, k)
    /\ farmos' = [farmos EXCEPT !.btnSyncDisabled = FALSE]
    /\ UNCHANGED <<inputs, pc, results, sensitivityId, sensitivity, simCalls,
                   form, limits, errors, exported, connector, connecting, sync>>

NextFarmOS ==
    \/ PanelFormEvent
    \/ \E filled \in BOOLEAN : ConnectClick(filled)
    \/ \E ok \in BOOLEAN : ConnectSettled(ok)
    \/ SyncClick
    \/ \E k \in 1..MaxSyncs, ok \in BOOLEAN : SyncSettled(k, ok)

SpecFarmOS == InitFarmOS /\ [][NextFarmOS]_vars

----------------------------------------------------------------------------
(* FarmOSConnector.syncSimulation(results, inputs, config, onProgress) *)

\* let currentLandId = null: the id no entity has (the server gives ids >= 1)
NoId == 0

\* the ids of the taxonomy terms the server already has
ExistingTermId(bundle) ==
    CASE bundle = "plant_type" -> 101
      [] bundle = "season" -> 102
      [] bundle = "log_category" -> 103

\* isMainGen modulo 2
isMainGen_Even(i) == i % 2 = 0

\* const isMainGen = (i) => i % 4 === 0   (i counts from 0)
isMainGen(i) == i % 4 = 0

\* const totalSteps = 3 + allGens.length * 4
totalStepsOf(allGens) == 3 + Len(allGens) * 4

\* the callback of the sync click handler:
\* pct = Math.round((current / total) * 100), the width of the progress bar
onProgress(current, total) == (200 * current + total) \div (2 * total)

\* const progress = (msg) => { step++; if (onProgress) onProgress(msg, step, totalSteps) }
progress(s) ==
    [s EXCEPT !.step = @ + 1,
              !.progressCalls = Append(@, [current |-> s.step + 1, total |-> s.totalSteps]),
              !.progressFill = onProgress(s.step + 1, s.totalSteps)]

\* the body of syncSimulation up to its first await: the counters, the first
\* progress call and the lookup of the plant type term
startSync(allGens) ==
    progress([pc |-> "awaiting", op |-> "plant_type", method |-> "GET", i |-> 0,
              step |-> 0, totalSteps |-> totalStepsOf(allGens),
              progressCalls |-> <<>>, progressFill |-> 0,
              summary |-> [terms |-> 0, lands |-> 0, plants |-> 0, seedings |-> 0,
                           harvests |-> 0, inputs |-> 0],
              plantTypeId |-> NoId, seasonId |-> NoId, categoryId |-> NoId,
              currentLandId |-> NoId, plantId |-> NoId,
              entities |-> <<>>])

\* the page after a sync click: the connector is connected and
\* syncSimulation(lastResults, lastInputs, ...) has run up to its first await
InitSync ==
    /\ inputs \in {MakeInputs(TypicalProfile, m) : m \in YieldModes}
    /\ results = calculateSimulation(inputs)
    /\ pc = "syncing"
    /\ sensitivityId = ""
    /\ sensitivity = <<>>
    /\ simCalls = 1
    /\ form = <<>>
    /\ limits = <<>>
    /\ errors = {}
    /\ exported = NoResults
    /\ connector = [_accessToken |-> "token"]
    /\ farmos = [Panel EXCEPT !.statusDot = "farmos-dot connected"]
    /\ connecting = FALSE
    /\ syncs = <<[results |-> results, inputs |-> inputs]>>
    /\ sync = startSync(results.all_gens)

\* the operation syncSimulation awaits after the operation op of node i: the
\* three terms, then for each node its land (main generations only), plant,
\* seeding log, harvest log and input log (main generations only)
nextOp(op, i, n) ==
    LET node(j) == IF j >= n THEN [op |-> "return", i |-> j]
                   ELSE IF isMainGen(j) THEN [op |-> "land", i |-> j]
                   ELSE [op |-> "plant", i |-> j]
    IN  CASE op = "plant_type" -> [op |-> "season", i |-> 0]
          [] op = "season" -> [op |-> "log_category", i |-> 0]
          [] op = "log_category" -> node(0)
          [] op = "land" -> [op |-> "plant", i |-> i]
          [] op = "plant" -> [op |-> "seeding", i |-> i]
          [] op = "seeding" -> [op |-> "harvest", i |-> i]
          [] op = "harvest" -> IF isMainGen(i) THEN [op |-> "input", i |-> i] ELSE node(i + 1)
          [] op = "input" -> node(i + 1)

\* the summary counter an operation increments
counterOf(op) ==
    CASE op \in {"plant_type", "season", "log_category"} -> "terms"
      [] op = "land" -> "lands"
      [] op = "plant" -> "plants"
      [] op = "seeding" -> "seedings"
      [] op = "harvest" -> "harvests"
      [] op = "input" -> "inputs"

\* syncSimulation from the await of the operation s.op, which gave the id, up
\* to its next await or its return
continueSync(s, id, n) ==
    LET got == [s EXCEPT !.summary[counterOf(s.op)] = @ + 1,
                         !.plantTypeId = IF s.op = "plant_type" THEN id ELSE @,
                         !.seasonId = IF s.op = "season" THEN id ELSE @,
                         !.categoryId = IF s.op = "log_category" THEN id ELSE @,
                         !.currentLandId = IF s.op = "land" THEN id ELSE @,
                         !.plantId = IF s.op = "plant" THEN id ELSE @]
        next == nextOp(s.op, s.i, n)
    IN  IF next.op = "return"
        THEN [got EXCEPT !.pc = "resolved", !.op = "return", !.i = next.i]
        ELSE progress([got EXCEPT !.op = next.op, !.i = next.i,
                                  !.method = IF next.op \in {"season", "log_category"}
                                             THEN "GET" ELSE "POST"])

\* the entity a POST of the operation s.op creates, with the relationships of
\* its payload
entityOf(s, id, allGens) ==
    CASE s.op \in {"plant_type", "season", "log_category"} ->
             [type |-> "taxonomy_term", bundle |-> s.op, id |-> id]
      [] s.op = "land" ->
             [type |-> "asset--land", gen |-> s.i, id |-> id,
              hectares |-> allGens[s.i + 1].hectares]
      [] s.op = "plant" ->
             [type |-> "asset--plant", gen |-> s.i, id |-> id,
              name |-> allGens[s.i + 1].name,
              plant_type |-> s.plantTypeId, season |-> s.seasonId]
      [] s.op = "seeding" ->
             [type |-> "log--seeding", gen |-> s.i, id |-> id,
              asset |-> s.plantId, location |-> s.currentLandId, category |-> s.categoryId]
      [] s.op = "harvest" ->
             [type |-> "log--harvest", gen |-> s.i, id |-> id,
              asset |-> s.plantId, category |-> s.categoryId]
      [] s.op = "input" ->
             [type |-> "log--input", gen |-> s.i, id |-> id,
              asset |-> s.plantId, category |-> s.categoryId]

\* getOrCreateTerm: the answer to the GET that looks the term up; a term the
\* server has gives its id, otherwise the term is POSTed
TermLookup(existing) ==
    /\ sync.pc = "awaiting"
    /\ sync.method = "GET"
    /\ sync' = IF existing
               THEN continueSync(sync, ExistingTermId(sync.op), Len(results.all_gens))
               ELSE [sync EXCEPT !.method = "POST"]
    /\ UNCHANGED <<inputs, pc, results, sensitivityId, sensitivity, simCalls,
                   form, limits, errors, exported, connector, farmos, connecting, syncs>>

\* the answer to a POST: the server creates the entity and gives its id,
\* created.data.id
Created ==
    /\ sync.pc = "awaiting"
    /\ sync.method = "POST"
    /\ \E id \in {Len(sync.entities) + 1} :
           sync' = continueSync([sync EXCEPT !.entities =
                                    Append(@, entityOf(sync, id, results.all_gens))],
                                id, Len(results.all_gens))
    /\ UNCHANGED <<inputs, pc, results, sensitivityId, sensitivity, simCalls,
                   form, limits, errors, exported, connector, farmos, connecting, syncs>>

\* apiRequest throws (the request fails, or the token cannot be refreshed):
\* syncSimulation rejects
RequestFailed ==
    /\ sync.pc = "awaiting"
    /\ sync' = [sync EXCEPT !.pc = "rejected"]
    /\ UNCHANGED <<inputs, pc, results, sensitivityId, sensitivity, simCalls,
                   form, limits, errors, exported, connector, farmos, connecting, syncs>>

NextSync ==
    \/ \E existing \in BOOLEAN : TermLookup(existing)
    \/ Created
    \/ RequestFailed

SpecSync == InitSync /\ [][NextSync]_vars

----------------------------------------------------------------------------
(* Properties of the engine, checked under Spec *)

Simulated == pc = "simulated"

\* the names calculateSimulation gives the 12 generations, in order
GenerationNames ==
    <<"Generation 1", "Gen 1a (vine)", "Gen 1b (vine)", "Gen 1c (vine)",
      "Generation 2", "Gen 2a (vine)", "Gen 2b (vine)", "Gen 2c (vine)",
      "Generation 3", "Gen 3a (vine)", "Gen 3b (vine)", "Gen 3c (vine)">>

\* C1: every simulation returns exactly 12 generation nodes in the fixed order
\* Gen1, Gen1a, Gen1b, Gen1c, Gen2, ..., Gen3c, whatever the parameters.
C1_TwelveNodesInOrder ==
    Simulated =>
        /\ Len(results.all_gens) = 12
        /\ \A i \in 1..12 : results.all_gens[i].name = GenerationNames[i]

\* C1 witness: the all-zero parameter set has been simulated and gave 12 nodes
C1_Witness ==
    /\ Simulated
    /\ \A k \in NumericKeys : inputs[k] = Zero
    /\ Len(results.all_gens) = 12
    /\ results.total_tons = Zero

NodeFields ==
    {"hectares", "slips_planted", "potatoes_harvested", "tons_harvested", "days_fed",
     "vitamin_a_mcg", "vitamin_a_child_days", "cost"}

AggregateFields ==
    {"total_days_fed", "total_cost", "total_tons", "cost_per_person_full_period",
     "cost_per_person_per_day", "total_vitamin_a_child_days", "children_annual_va_met",
     "cycles_per_year", "annual_scale_factor", "annual_tons", "annual_days_fed",
     "annual_cost"}

\* C2 (as claimed): every division is guarded, so no node field and no
\* aggregate of a simulation result is NaN or infinite.
C2_EveryResultFinite ==
    Simulated =>
        /\ \A i \in 1..Len(results.all_gens) :
               \A f \in NodeFields : IsFinite(results.all_gens[i][f])
        /\ \A f \in AggregateFields : IsFinite(results[f])

\* the value the engine uses for an input it reads through "|| fallback"
C3_Used(supplied, fallback) == IF supplied = Zero THEN Int2Num(fallback) ELSE supplied

MainPositions == {1, 5, 9}

\* C5 (as claimed): in both yield modes the harvested masses of the sub-nodes
\* a, b, c of every main generation are in the ratio 0.40 : 0.25 : 0.15.
C5_SubGenMassRatio ==
    Simulated =>
        \A m \in MainPositions :
            LET a == results.all_gens[m + 1].tons_harvested
                b == results.all_gens[m + 2].tons_harvested
                c == results.all_gens[m + 3].tons_harvested
            IN  /\ Mul(Num(25, 100), a) = Mul(Num(40, 100), b)
                /\ Mul(Num(15, 100), b) = Mul(Num(25, 100), c)

\* the full-preparation cost per hectare, from the twelve per-area cost inputs
C6_FullPreparationCost ==
    LET labour == {"cost_land_clearing_per_acre", "cost_forking_per_acre",
                   "cost_planting_per_acre", "cost_weeding_per_acre",
                   "cost_fertilizer_app_per_acre", "cost_harvesting_per_acre"}
        supplies == {"cost_herbicide_per_acre", "cost_fertilizer_per_acre",
                     "cost_tools_per_acre", "cost_other_per_acre",
                     "cost_transport_per_acre"}
        RECURSIVE total(_)
        total(ks) == IF ks = {} THEN Zero
                     ELSE LET k == CHOOSE x \in ks : TRUE
                          IN  Add(inputs[k], total(ks \ {k}))
    IN  Mul(total(labour \cup supplies \cup {"cost_irrigation_per_acre"}),
            inputs.acres_per_hectare)

\* C6: slip purchase cost is part of Generation 1's cost only: Generation 1
\* costs full-preparation cost-per-hectare x initial land + initial slips x
\* cost-per-slip, and the cost of each of the other 11 nodes is the same for
\* every cost-per-slip.
C6_SlipCostOnlyInGen1 ==
    Simulated =>
        /\ results.all_gens[1].cost =
               Add(Mul(C6_FullPreparationCost, inputs.initial_hectares),
                   Mul(inputs.initial_slips, inputs.cost_slip_per_unit))
        /\ \A v \in Vals \cup {Num(1, 4)} :
               LET other == calculateSimulation([inputs EXCEPT !.cost_slip_per_unit = v])
               IN  \A i \in 2..12 : other.all_gens[i].cost = results.all_gens[i].cost

\* C6 witness: slips are bought at a price and the later generations plant slips too
C6_Witness ==
    /\ Simulated
    /\ Gt(inputs.cost_slip_per_unit, Zero)
    /\ Gt(inputs.initial_slips, Zero)
    /\ Gt(results.all_gens[5].slips_planted, Zero)
    /\ Gt(results.all_gens[6].slips_planted, Zero)
    /\ Gt(results.all_gens[1].cost, Mul(C6_FullPreparationCost, inputs.initial_hectares))

\* C7 (as claimed): in per-plant mode, when one of the three survival rates is
\* 0, every node's tuber count, mass, days-fed, Vitamin-A mass and Vitamin-A
\* child-days are 0 and total tons is 0.
C7_ZeroSurvivalZeroHarvest ==
    (/\ Simulated
     /\ inputs.yield_mode = "per_plant"
     /\ \E k \in {"slip_survival_rate", "crop_survival_rate", "storage_survival_rate"} :
            inputs[k] = Zero)
    => /\ \A i \in 1..12 :
              \A f \in {"potatoes_harvested", "tons_harvested", "days_fed",
                        "vitamin_a_mcg", "vitamin_a_child_days"} :
                  results.all_gens[i][f] = Zero
       /\ results.total_tons = Zero

\* C8: with a target population of 0, cost-per-person-full-period and
\* cost-per-person-per-day are both exactly 0.
C8_NoPopulationNoCostPerPerson ==
    (Simulated /\ inputs.people_to_feed = Zero)
    => /\ results.cost_per_person_full_period = Zero
       /\ results.cost_per_person_per_day = Zero

\* C8 witness: a population of 0 was simulated and the chain has a cost
C8_Witness ==
    /\ Simulated
    /\ inputs.people_to_feed = Zero
    /\ Gt(results.total_cost, Zero)
    /\ results.cost_per_person_full_period = Zero

----------------------------------------------------------------------------
(* Properties of the sensitivity analysis, checked under SpecSensitivity *)

Analyzed == pc = "analyzed"

\* the id of the last analysis names an input of the parameter set
IdPresent == sensitivityId # "" /\ sensitivityId \in DOMAIN inputs

\* C9 (as claimed): for an id present in the parameters the analysis gives
\* exactly 5 rows with factors 0.75, 0.90, 1.00, 1.10, 1.25 in that order, the
\* middle row being the unscaled baseline, whose days-fed delta and cost delta
\* are both zero.
C9_FiveRowsZeroBaseDelta ==
    (Analyzed /\ IdPresent)
    => /\ Len(sensitivity) = 5
       /\ <<sensitivity[1].factor, sensitivity[2].factor, sensitivity[3].factor,
            sensitivity[4].factor, sensitivity[5].factor>>
              = <<Num(3, 4), Num(9, 10), One, Num(11, 10), Num(5, 4)>>
       /\ sensitivity[3].value = inputs[sensitivityId]
       /\ sensitivity[3].isBaseRow
       /\ sensitivity[3].daysDelta = Zero
       /\ sensitivity[3].costDelta = Zero

\* C10: an analysis called with an empty id, or with an id that is not in the
\* parameters, renders no rows and makes no call of the simulation engine.
C10_UnknownIdEmptyResult ==
    (Analyzed /\ ~IdPresent) => (sensitivity = <<>> /\ simCalls = 0)

\* C10 witness: an analysis was called with an id that is no input, after a
\* simulation that gave results
C10_Witness ==
    /\ Analyzed
    /\ sensitivityId = "no_such_input"
    /\ sensitivity = <<>>
    /\ Len(results.all_gens) = 12

----------------------------------------------------------------------------
(* Properties of the per-node and aggregate formulas, checked under Spec *)

\* C13 (as claimed): cost-per-person-per-day is total cost / (total days-fed x
\* population) whenever both factors are non-zero and 0 when either is zero,
\* so recomputing it from the result's total_cost and total_days_fed and the
\* population reproduces the returned value.
C13_CostPerPersonPerDayRecomputed ==
    Simulated =>
        LET days == results.total_days_fed
            population == inputs.people_to_feed
        IN  results.cost_per_person_per_day =
                IF days = Zero \/ population = Zero
                THEN Zero
                ELSE Div(results.total_cost, Mul(days, population))

\* the slips the vine cuttings of the main generation at position m would give:
\* (its slips x crop survival) x vine-cuttings-per-plant
C14_CuttingsOf(m) ==
    Mul(Mul(results.all_gens[m].slips_planted, inputs.crop_survival_rate),
        inputs.vine_cuttings_per_plant)

C15_ReplantedSlipsAndOwnLand ==
    Simulated =>
        /\ \A m \in {5, 9} :
               results.all_gens[m].slips_planted =
                   Mul(Mul(results.all_gens[m - 4].potatoes_harvested, inputs.replant_percent),
                       inputs.slips_from_replant)
        /\ results.all_gens[5].hectares = inputs.hectares_gen_2
        /\ results.all_gens[9].hectares = inputs.hectares_gen_3

\* C15 witness: Generation 3 plants slips replanted from Generation 2, only
\* part of the tubers is replanted, and the three land areas differ
C15_Witness ==
    /\ Simulated
    /\ Gt(results.all_gens[9].slips_planted, Zero)
    /\ Gt(One, inputs.replant_percent)
    /\ results.all_gens[1].hectares # results.all_gens[5].hectares
    /\ results.all_gens[5].hectares # results.all_gens[9].hectares

\* the yield fraction of each of the 12 positions: 1.0 for a main generation,
\* 0.40, 0.25, 0.15 for its sub-nodes a, b, c
C16_YieldFraction ==
    <<One, Num(40, 100), Num(25, 100), Num(15, 100),
      One, Num(40, 100), Num(25, 100), Num(15, 100),
      One, Num(40, 100), Num(25, 100), Num(15, 100)>>

\* the parameter set of the example: 34.3 ha at 10 t/ha and 0.90 efficiency
C16_ExampleInputs ==
    MakeInputs([TypicalProfile EXCEPT !["initial_hectares"] = Num(343, 10),
                                      !["tons_per_hectare"] = Int2Num(10),
                                      !["tons_harvest_percent"] = Num(90, 100)],
               "per_hectare")

\* C16: in per-hectare mode every node's harvested mass is land x tons-per-
\* hectare x harvest-efficiency x the node's yield fraction, and its tuber
\* count is mass x mass-per-ton / mass-per-tuber (0 when mass-per-tuber is not
\* positive); 34.3 ha at 10 t/ha and 0.90 efficiency give 308.7 tons.
C16_PerHectareHarvest ==
    (Simulated /\ inputs.yield_mode = "per_hectare")
    => /\ \A i \in 1..12 :
              LET g == results.all_gens[i]
                  mass == Mul(Mul(Mul(g.hectares, inputs.tons_per_hectare),
                                  inputs.tons_harvest_percent), C16_YieldFraction[i])
              IN  /\ g.tons_harvested = mass
                  /\ g.potatoes_harvested =
                         IF Gt(inputs.grams_per_potato, Zero)
                         THEN Div(Mul(mass, inputs.grams_per_ton), inputs.grams_per_potato)
                         ELSE Zero
       /\ calculateSimulation(C16_ExampleInputs).all_gens[1].tons_harvested = Num(3087, 10)

\* C16 witness: a per-hectare simulation with an efficiency below 1 in which
\* the last sub-node harvests a positive mass and tuber count
C16_Witness ==
    /\ Simulated
    /\ inputs.yield_mode = "per_hectare"
    /\ Gt(One, inputs.tons_harvest_percent)
    /\ Gt(inputs.tons_harvest_percent, Zero)
    /\ Gt(results.all_gens[12].tons_harvested, Zero)
    /\ Gt(results.all_gens[12].potatoes_harvested, Zero)

C18_PreparationOnlyKeys ==
    {"cost_slip_per_unit", "cost_land_clearing_per_acre", "cost_forking_per_acre",
     "cost_herbicide_per_acre", "cost_planting_per_acre"}

\* the costs of the nine sub-nodes of a result
C18_SubGenCosts(res) ==
    [m \in MainPositions |-> [j \in 1..3 |-> res.all_gens[m + j].cost]]

\* C18: every sub-node's land is its parent's land and its cost is the
\* maintenance-only cost-per-hectare (weeding, fertilizer application,
\* harvesting, transport) x that land; it has no purchase, land-clearing,
\* forking, herbicide or planting-labour component, so it is the same when one
\* of those cost inputs is changed.
C18_SubGenMaintenanceOnly ==
    Simulated =>
        /\ \A m \in MainPositions : \A j \in 1..3 :
               /\ results.all_gens[m + j].hectares = results.all_gens[m].hectares
               /\ results.all_gens[m + j].cost =
                      Mul(Mul(Add(Add(Add(inputs.cost_weeding_per_acre,
                                          inputs.cost_fertilizer_app_per_acre),
                                      inputs.cost_harvesting_per_acre),
                                  inputs.cost_transport_per_acre),
                              inputs.acres_per_hectare),
                          results.all_gens[m].hectares)
        /\ \A k \in C18_PreparationOnlyKeys :
               C18_SubGenCosts(calculateSimulation([inputs EXCEPT ![k] = Add(@, One)]))
                   = C18_SubGenCosts(results)

\* C18 witness: the sub-nodes of Generation 2 have a positive cost on
\* Generation 2's land, below the cost of Generation 2, and herbicide and land
\* clearing are charged
C18_Witness ==
    /\ Simulated
    /\ Gt(inputs.cost_herbicide_per_acre, Zero)
    /\ Gt(inputs.cost_land_clearing_per_acre, Zero)
    /\ results.all_gens[6].hectares = inputs.hectares_gen_2
    /\ Gt(results.all_gens[6].cost, Zero)
    /\ Gt(results.all_gens[5].cost, results.all_gens[6].cost)

\* the sum of the six labour-category per-area costs
C19_Labour ==
    Add(inputs.cost_land_clearing_per_acre,
        Add(inputs.cost_forking_per_acre,
            Add(inputs.cost_planting_per_acre,
                Add(inputs.cost_weeding_per_acre,
                    Add(inputs.cost_fertilizer_app_per_acre,
                        inputs.cost_harvesting_per_acre)))))

\* the sum of the five supply-category per-area costs, transport included
C19_Supplies ==
    Add(inputs.cost_herbicide_per_acre,
        Add(inputs.cost_fertilizer_per_acre,
            Add(inputs.cost_tools_per_acre,
                Add(inputs.cost_other_per_acre, inputs.cost_transport_per_acre))))

C20_CaloriesPerTon ==
    IF Gt(inputs.grams_per_ton, Zero) /\ Gt(inputs.grams_per_potato, Zero)
    THEN Mul(Div(inputs.grams_per_ton, inputs.grams_per_potato),
             inputs.calories_per_potato_with_leaves)
    ELSE Zero

\* C20 (as claimed): for every node, days-fed = (mass x calories-per-ton) /
\* (population x per-person calorie target), 0 if that denominator is zero;
\* Vitamin-A mass = mass x (mass-per-ton / 100) x Vitamin-A-per-100g; and
\* Vitamin-A child-days = Vitamin-A mass / daily child need, 0 if the need is
\* zero.
C20_NodeNutrition ==
    Simulated =>
        \A i \in 1..12 :
            LET g == results.all_gens[i]
                needed == Mul(inputs.people_to_feed, inputs.calorie_target_per_person)
                vitaminA == Mul(Mul(g.tons_harvested, Div(inputs.grams_per_ton, Int2Num(100))),
                                inputs.vitamin_a_per_100g)
            IN  /\ g.days_fed = IF needed = Zero THEN Zero
                                ELSE Div(Mul(g.tons_harvested, C20_CaloriesPerTon), needed)
                /\ g.vitamin_a_mcg = vitaminA
                /\ g.vitamin_a_child_days =
                       IF inputs.daily_vitamin_a_need = Zero THEN Zero
                       ELSE Div(vitaminA, inputs.daily_vitamin_a_need)

----------------------------------------------------------------------------
(* Properties of sequences of calls, checked under SpecCalls *)

\* C11: neither calculateSimulation nor runSensitivityAnalysis mutates the
\* parameter object passed to it: across every simulate or analyze call each
\* key of the caller's object keeps its value, and a simulate call made after
\* an earlier one on the same object returns the same result.
C11_ParametersNotMutated ==
    [][/\ inputs' = inputs
       /\ (results # NoResults /\ pc' = "simulated") => results' = results]_vars

\* C11 witness: a simulate call has returned a result after an analysis that
\* scaled an input of the same parameter object five times
C11_Witness ==
    /\ pc = "simulated"
    /\ Len(sensitivity) = 5
    /\ Gt(inputs[sensitivityId], Zero)
    /\ sensitivity[5].value # inputs[sensitivityId]
    /\ Len(results.all_gens) = 12

----------------------------------------------------------------------------
(* Properties of the page, checked under SpecPage *)

\* C12 (as claimed): the engine is only ever invoked on form data that has
\* passed validation.  A handler that calls calculateSimulation on the current
\* form (run, the CSV export) does so only when the validateForm check of that
\* form returned true, and the errors are shown with no engine call otherwise;
\* the sensitivity selection calls it on the displayed parameters, each of
\* which passes the check of its input.
C12_EngineOnlyOnValidatedForm ==
    /\ pc = "rejected" => (simCalls = 0 /\ errors # {})
    /\ pc \in {"displayed", "exported"} => (simCalls > 0 /\ errors = {})
    /\ (pc = "analyzed" /\ simCalls > 0)
           => \A k \in NumericKeys : ~fieldInvalid(Field(inputs[k]), limits[k])

----------------------------------------------------------------------------
(* Properties of the aggregates and of independence, checked under Spec *)

\* the sum of field f over the first n nodes of the result
RECURSIVE C21_SumTo(_, _)
C21_SumTo(f, n) ==
    IF n = 0 THEN Zero ELSE Add(C21_SumTo(f, n - 1), results.all_gens[n][f])

\* C21 (as claimed): total tons, total days-fed, total cost and total
\* Vitamin-A child-days are the sums of the field over the 12 nodes;
\* children-with-annual-need-met is floor(total Vitamin-A child-days / 365);
\* cost-per-person-full-period is total cost / population, 0 if population <= 0.
C21_TotalsAreSums ==
    Simulated =>
        /\ results.total_tons = C21_SumTo("tons_harvested", 12)
        /\ results.total_days_fed = C21_SumTo("days_fed", 12)
        /\ results.total_cost = C21_SumTo("cost", 12)
        /\ results.total_vitamin_a_child_days = C21_SumTo("vitamin_a_child_days", 12)
        /\ results.children_annual_va_met =
               MathFloor(Div(results.total_vitamin_a_child_days, Int2Num(365)))
        /\ results.cost_per_person_full_period =
               IF Le(inputs.people_to_feed, Zero)
               THEN Zero
               ELSE Div(results.total_cost, inputs.people_to_feed)

----------------------------------------------------------------------------
(* Properties of the rows of the analysis, checked under SpecSensitivity *)

\* the factors of the five rows
C23_Factors == <<Num(75, 100), Num(90, 100), One, Num(110, 100), Num(125, 100)>>

\* the parameters of row i: the analysed parameter set with only the chosen
\* parameter changed, to its baseline x the factor of the row
C23_RowInputs(i) ==
    [k \in DOMAIN inputs |->
        IF k = sensitivityId THEN Mul(inputs[k], C23_Factors[i]) ELSE inputs[k]]

\* row i agrees with the engine run on its parameters and with the baseline run
C23_RowIsRun(row, run, baseline, i) ==
    /\ row.value = Mul(inputs[sensitivityId], C23_Factors[i])
    /\ row.days_fed = run.total_days_fed
    /\ row.cost = run.total_cost
    /\ row.daysDelta = Sub(run.total_days_fed, baseline.total_days_fed)
    /\ row.costDelta = Sub(run.total_cost, baseline.total_cost)

\* C23: each sensitivity row is the engine re-run on a copy of the parameters
\* that differs from the original only in the chosen parameter, whose value is
\* baseline x the row's factor: the row's days-fed and cost are that run's
\* totals, and its deltas are those totals minus the totals of the simulation
\* of the original parameters.
C23_RowsAreEngineRuns ==
    (Analyzed /\ IdPresent)
    => /\ Len(sensitivity) = 5
       /\ \A i \in 1..5 :
              C23_RowIsRun(sensitivity[i], calculateSimulation(C23_RowInputs(i)), results, i)

\* C23 witness: the +25% row of an analysis shows more days fed and a higher
\* cost than the baseline simulation
C23_Witness ==
    /\ Analyzed
    /\ IdPresent
    /\ Len(sensitivity) = 5
    /\ Gt(sensitivity[5].daysDelta, Zero)
    /\ Gt(sensitivity[5].costDelta, Zero)
    /\ Gt(results.total_days_fed, Zero)

----------------------------------------------------------------------------
(* Independence properties of the engine, checked under Spec *)

\* the inputs two parameter sets must agree on to have the same costs: the
\* per-area costs, the area-unit conversion, the cost per slip, the initial
\* slips and the three land areas
C24_CostKeys ==
    {"cost_land_clearing_per_acre", "cost_forking_per_acre", "cost_planting_per_acre",
     "cost_weeding_per_acre", "cost_fertilizer_app_per_acre", "cost_harvesting_per_acre",
     "cost_herbicide_per_acre", "cost_fertilizer_per_acre", "cost_tools_per_acre",
     "cost_other_per_acre", "cost_transport_per_acre", "cost_irrigation_per_acre",
     "acres_per_hectare", "cost_slip_per_unit", "initial_slips", "initial_hectares",
     "hectares_gen_2", "hectares_gen_3"}

\* the parameter set that agrees with the simulated one on the cost keys, has
\* every biological, survival, nutrition, population and time input replaced
\* by other, and has the given yield mode
C24_Variant(other(_), mode) ==
    [k \in DOMAIN inputs |->
        IF k = "yield_mode" THEN mode
        ELSE IF k \in C24_CostKeys THEN inputs[k]
        ELSE other(inputs[k])]

\* two replacements of the other inputs: all zero, all one
C24_ToZero(v) == Zero

C24_ToOne(v) == One

\* the per-node costs and the total cost of a result
C24_Costs(res) == <<[i \in 1..12 |-> res.all_gens[i].cost], res.total_cost>>

\* C24: every node's cost and the total cost are independent of the yield
\* mode and of all biological, survival, nutrition, population and time
\* parameters: a parameter set that agrees with the simulated one on the cost
\* keys gives the same per-node costs and the same total cost.
C24_CostIndependentOfYield ==
    Simulated =>
        /\ C24_Costs(calculateSimulation(C24_Variant(C24_ToZero, "per_hectare")))
               = C24_Costs(results)
        /\ C24_Costs(calculateSimulation(C24_Variant(C24_ToOne, "per_plant")))
               = C24_Costs(results)

\* C24 witness: a per-plant simulation with a positive harvest and a positive
\* cost, in which slips are bought and not all of them establish
C24_Witness ==
    /\ Simulated
    /\ inputs.yield_mode = "per_plant"
    /\ Gt(results.total_tons, Zero)
    /\ Gt(results.total_cost, Zero)
    /\ Gt(Mul(inputs.initial_slips, inputs.cost_slip_per_unit), Zero)
    /\ inputs.slip_survival_rate # One

\* the inputs the per-hectare harvest is claimed not to depend on: the initial
\* slips, the three survival rates, tubers per plant, vine cuttings per plant,
\* the replant fraction and the slips per replanted tuber
C25_PlantKeys ==
    {"initial_slips", "slip_survival_rate", "crop_survival_rate", "storage_survival_rate",
     "potatoes_per_plant", "vine_cuttings_per_plant", "replant_percent",
     "slips_from_replant"}

\* the simulated parameter set with every plant key replaced by v
C25_Variant(v) ==
    [k \in DOMAIN inputs |-> IF k \in C25_PlantKeys THEN v ELSE inputs[k]]

\* the mass and days fed of every node, and the two totals
C25_Harvest(res) ==
    <<[i \in 1..12 |-> <<res.all_gens[i].tons_harvested, res.all_gens[i].days_fed>>],
      res.total_tons, res.total_days_fed>>

\* C25: in per-hectare mode every node's mass and days fed and the totals
\* total_tons and total_days_fed do not depend on the initial slips, the three
\* survival rates, tubers per plant, vine cuttings per plant, the replant
\* fraction or the slips per replanted tuber; the rows of an analysis of one of
\* those inputs all have a zero days-fed delta.
C25_PerHectareIgnoresPlants ==
    /\ (Simulated /\ inputs.yield_mode = "per_hectare")
           => /\ C25_Harvest(calculateSimulation(C25_Variant(Zero))) = C25_Harvest(results)
              /\ C25_Harvest(calculateSimulation(C25_Variant(One))) = C25_Harvest(results)
    /\ (Analyzed /\ inputs.yield_mode = "per_hectare" /\ sensitivityId \in C25_PlantKeys)
           => \A i \in 1..Len(sensitivity) : sensitivity[i].daysDelta = Zero

\* C25 witness: the five-row analysis of a crop survival rate strictly between
\* 0 and 1 of a per-hectare simulation that feeds people
C25_Witness ==
    /\ Analyzed
    /\ inputs.yield_mode = "per_hectare"
    /\ sensitivityId = "crop_survival_rate"
    /\ Gt(inputs.crop_survival_rate, Zero) /\ inputs.crop_survival_rate # One
    /\ Len(sensitivity) = 5
    /\ Gt(results.total_days_fed, Zero)

----------------------------------------------------------------------------
(* Properties of the farmOS panel, checked under SpecFarmOS *)

\* C26 (as claimed): at most one sync is in progress at any time: while a
\* syncSimulation call is awaited the sync button stays disabled, whatever
\* form events and connects happen meanwhile, so no second call is started.
C26_OneSyncAtATime ==
    /\ Len(syncs) <= 1
    /\ Len(syncs) > 0 => farmos.btnSyncDisabled

\* C27 (as claimed): the status dot is 'connected' exactly when the connector
\* is connected; after a failed connect (the dot is 'disconnected') the
\* connector holds no access token and the sync button is disabled.
C27_StatusMatchesConnector ==
    /\ farmos.statusDot = "farmos-dot connected" <=> isConnected(connector)
    /\ farmos.statusDot = "farmos-dot disconnected"
           => /\ connector._accessToken = Null
              /\ farmos.btnSyncDisabled

\* lastResults and lastInputs are both null, or lastResults is what the engine
\* gives for lastInputs; every awaited sync was sent such a pair
C30_PairsConsistent ==
    /\ \/ inputs = <<>> /\ results = NoResults
       \/ inputs # <<>> /\ results = calculateSimulation(inputs)
    /\ \A k \in 1..Len(syncs) :
           /\ syncs[k].inputs # <<>>
           /\ syncs[k].results = calculateSimulation(syncs[k].inputs)

\* a step that changes lastResults or lastInputs leaves a form that passes
\* validateForm, and the new pair is that form's inputs and their results
C30_PairSetFromValidForm ==
    (inputs' # inputs \/ results' # results)
        => /\ validateForm(form', limits)
           /\ inputs' = getInputs(form')
           /\ results' = calculateSimulation(inputs')

\* C30: after any sequence of form events lastResults and lastInputs are both
\* null or lastResults = calculateSimulation(lastInputs) for a form state that
\* passed validateForm; an event on an invalid form leaves both unchanged; a
\* sync is always sent such a consistent pair.
C30_LastResultsMatchLastInputs ==
    []C30_PairsConsistent /\ [][C30_PairSetFromValidForm]_vars

\* C30 witness: two syncs are awaited that were sent different pairs, and the
\* form has since been left invalid
C30_Witness ==
    /\ Len(syncs) = 2
    /\ syncs[1].inputs # syncs[2].inputs
    /\ pc = "rejected"
    /\ results = syncs[2].results

----------------------------------------------------------------------------
(* Properties of syncSimulation, checked under SpecSync *)

\* C28 (as claimed): during the sync of a 12-node result the current step of
\* the progress callback increases by exactly 1 per call, never exceeds the
\* reported total, and equals the total at the last call of a successful sync.
C28_ProgressReachesTotal ==
    LET calls == sync.progressCalls
    IN  /\ \A j \in 1..Len(calls) :
               /\ calls[j].current = j
               /\ calls[j].current <= calls[j].total
        /\ sync.pc = "resolved" => calls[Len(calls)].current = calls[Len(calls)].total

\* the entities created so far of a type
C29_Of(type) == {j \in 1..Len(sync.entities) : sync.entities[j].type = type}

\* the positions of the assets and logs created so far
C29_AssetsAndLogs == {j \in 1..Len(sync.entities) : sync.entities[j].type # "taxonomy_term"}

\* C29: entities are created in dependency order: the three taxonomy terms
\* are obtained before any asset; per node the plant asset precedes its
\* seeding and harvest logs; a land asset is created only for main generations
\* (index divisible by 4); every seeding log is located on the non-null land
\* asset most recently created, which is that of its own main generation; a
\* successful sync of 12 nodes reports 3 terms, 3 lands, 12 plants,
\* 12 seedings, 12 harvests and 3 input logs.
C29_DependencyOrder ==
    LET e == sync.entities
    IN  /\ \A j \in 1..Len(e) :
               e[j].type = "taxonomy_term" => \A a \in C29_AssetsAndLogs : j < a
        /\ C29_AssetsAndLogs # {}
               => /\ sync.summary.terms = 3
                  /\ sync.plantTypeId # NoId /\ sync.seasonId # NoId /\ sync.categoryId # NoId
        /\ \A j \in C29_Of("asset--plant") :
               e[j].plant_type = sync.plantTypeId /\ e[j].season = sync.seasonId
        /\ \A j \in C29_Of("log--seeding") \cup C29_Of("log--harvest") :
               \E p \in C29_Of("asset--plant") :
                   p < j /\ e[p].gen = e[j].gen /\ e[p].id = e[j].asset
        /\ \A j \in C29_Of("asset--land") : e[j].gen % 4 = 0
        /\ \A j \in C29_Of("log--seeding") :
               /\ e[j].location # NoId
               /\ \E l \in C29_Of("asset--land") :
                      /\ l < j
                      /\ e[l].id = e[j].location
                      /\ e[l].gen = 4 * (e[j].gen \div 4)
                      /\ \A m \in C29_Of("asset--land") : m < j => m <= l
        /\ sync.pc = "resolved"
               => /\ Len(results.all_gens) = 12
                  /\ sync.summary = [terms |-> 3, lands |-> 3, plants |-> 12,
                                      seedings |-> 12, harvests |-> 12, inputs |-> 3]

\* C29 witness: a sync of 12 nodes has resolved; the server had the season
\* term and the two other terms were created, with 3 lands, 12 plants and 27
\* logs after them
C29_Witness ==
    /\ sync.pc = "resolved"
    /\ sync.seasonId = ExistingTermId("season")
    /\ Len(sync.entities) = 44
    /\ sync.entities[44].type = "log--harvest"
    /\ sync.entities[44].gen = 11

====
